---- MODULE Spec2Model ----
(***************************************************************************)
(* search-sub: a NATS subscriber that keeps two Typesense collections      *)
(* (users, posts) in step with domain events (src/main.go).                *)
(*                                                                         *)
(* State: the messages the bus has delivered to this client (each with its *)
(* handler's position and outcome), the two index collections, the set of  *)
(* registered subscriptions and the position of main.                      *)
(*                                                                         *)
(* Dispatch: every s.natsConn.Subscribe(subject, callback) of main.go is   *)
(* an asynchronous nats.go subscription (nats.go v1.46.0, go.mod). nats.go *)
(* gives each such subscription one delivery goroutine that takes the      *)
(* subscription's pending messages in arrival order and calls the callback *)
(* synchronously, one message at a time; the five subscriptions run        *)
(* independently of one another.                                           *)
(***************************************************************************)
EXTENDS Integers, Sequences, FiniteSets, TLC

\* Bound: how many messages the bus delivers in one run.
MaxMsgs == 2

(***************************************************************************)
(* JSON values of a payload                                                *)
(***************************************************************************)
Absent == [t |-> "absent", s |-> "", n |-> 0, b |-> FALSE, l |-> <<>>]
Str(x) == [t |-> "string", s |-> x, n |-> 0, b |-> FALSE, l |-> <<>>]
Num(k) == [t |-> "number", s |-> "", n |-> k, b |-> FALSE, l |-> <<>>]
Bool(x) == [t |-> "bool", s |-> "", n |-> 0, b |-> x, l |-> <<>>]
\* A JSON string holding an RFC 3339 instant, ms milliseconds after the epoch.
Time(ms) == [t |-> "time", s |-> "rfc3339", n |-> ms, b |-> FALSE, l |-> <<>>]
\* A JSON array of strings.
Arr(q) == [t |-> "array", s |-> "", n |-> 0, b |-> FALSE, l |-> q]

UserKeys ==
  {"id", "username", "name", "email", "bio", "picture", "school", "country",
   "campus", "info_updated", "program", "year", "created_at", "updated_at"}

PostKeys ==
  {"id", "user_id", "username", "user_picture", "user_bio", "user_programme",
   "user_year", "user_campus", "subject", "title", "content", "images",
   "created_at", "updated_at"}

Keys == UserKeys \cup PostKeys

\* A message body that is not JSON at all.
Garbage == [kind |-> "garbage", fields |-> [k \in Keys |-> Absent]]

\* A JSON object holding exactly the members S (pairs <<key, value>>).
Obj(S) ==
  [kind |-> "object",
   fields |-> [k \in Keys |->
                 IF \E p \in S : p[1] = k
                 THEN (CHOOSE p \in S : p[1] = k)[2]
                 ELSE Absent]]

(***************************************************************************)
(* 64-bit epoch seconds. Go's zero time.Time is 0001-01-01T00:00:00Z, whose *)
(* Unix() is -62135596800: a number beyond the model checker's integers, so *)
(* an int64 v is kept as hi * 10^9 + lo with 0 <= lo < 10^9.                *)
(***************************************************************************)
Wide(v) == [hi |-> v \div 1000000000, lo |-> v % 1000000000]

\* time.Time: whole seconds since the epoch and the (never negative)
\* sub-second part, here in milliseconds.
ParseTime(ms) == [sec |-> Wide(ms \div 1000), msec |-> ms % 1000]

ZeroTime == [sec |-> [hi |-> -63, lo |-> 864403200], msec |-> 0]

\* Variant: the seconds rounded toward zero, so that an instant before the
\* epoch with a sub-second part gets the second after it.
Unix_towardZero(tm) ==
  IF tm.sec.hi < 0 /\ tm.msec > 0
  THEN IF tm.sec.lo + 1 = 1000000000
       THEN [hi |-> tm.sec.hi + 1, lo |-> 0]
       ELSE [hi |-> tm.sec.hi, lo |-> tm.sec.lo + 1]
  ELSE tm.sec

\* time.Time.Unix()
Unix(tm) == tm.sec

(***************************************************************************)
(* Decoding: json.Unmarshal into User, Post and the delete event           *)
(***************************************************************************)
UserFieldType ==
  [k \in UserKeys |->
     CASE k = "info_updated" -> "bool"
       [] k = "year" -> "number"
       [] k \in {"created_at", "updated_at"} -> "time"
       [] OTHER -> "string"]

PostFieldType ==
  [k \in PostKeys |->
     CASE k = "user_year" -> "number"
       [] k = "images" -> "array"
       [] k \in {"created_at", "updated_at"} -> "time"
       [] OTHER -> "string"]

\* Whether JSON value v can be stored into a Go field of type ty. An RFC 3339
\* string is a string too.
Fits(v, ty) ==
  \/ v.t = "absent"
  \/ v.t = ty
  \/ ty = "string" /\ v.t = "time"

StrOf(v) == IF v.t \in {"string", "time"} THEN v.s ELSE ""
NumOf(v) == IF v.t = "number" THEN v.n ELSE 0
BoolOf(v) == IF v.t = "bool" THEN v.b ELSE FALSE
ArrOf(v) == IF v.t = "array" THEN v.l ELSE <<>>
TimeOf(v) == IF v.t = "time" THEN ParseTime(v.n) ELSE ZeroTime

\* var user User; json.Unmarshal(msg.Data, &user)
DecodeUser(p) ==
  LET f == p.fields IN
  [err |-> p.kind # "object" \/ \E k \in UserKeys : ~Fits(f[k], UserFieldType[k]),
   Id |-> StrOf(f["id"]),
   Username |-> StrOf(f["username"]),
   Name |-> StrOf(f["name"]),
   Email |-> StrOf(f["email"]),
   Bio |-> StrOf(f["bio"]),
   Picture |-> StrOf(f["picture"]),
   School |-> StrOf(f["school"]),
   Country |-> StrOf(f["country"]),
   Campus |-> StrOf(f["campus"]),
   InfoUpdated |-> BoolOf(f["info_updated"]),
   Program |-> StrOf(f["program"]),
   Year |-> NumOf(f["year"]),
   CreatedAt |-> TimeOf(f["created_at"]),
   UpdatedAt |-> TimeOf(f["updated_at"])]

\* var post Post; json.Unmarshal(msg.Data, &post)
DecodePost(p) ==
  LET f == p.fields IN
  [err |-> p.kind # "object" \/ \E k \in PostKeys : ~Fits(f[k], PostFieldType[k]),
   Id |-> StrOf(f["id"]),
   UserId |-> StrOf(f["user_id"]),
   Username |-> StrOf(f["username"]),
   UserPicture |-> StrOf(f["user_picture"]),
   UserBio |-> StrOf(f["user_bio"]),
   UserProgramme |-> StrOf(f["user_programme"]),
   UserYear |-> NumOf(f["user_year"]),
   UserCampus |-> StrOf(f["user_campus"]),
   Subject |-> StrOf(f["subject"]),
   Title |-> StrOf(f["title"]),
   Content |-> StrOf(f["content"]),
   Images |-> ArrOf(f["images"]),
   CreatedAt |-> TimeOf(f["created_at"]),
   UpdatedAt |-> TimeOf(f["updated_at"])]

\* var deleteEvent struct{ Id string `json:"id"` }; json.Unmarshal(msg.Data, &deleteEvent)
DecodeDelete(p) ==
  [err |-> p.kind # "object" \/ ~Fits(p.fields["id"], "string"),
   Id |-> StrOf(p.fields["id"])]

(***************************************************************************)
(* Mapping: the documents sent to Typesense                                *)
(***************************************************************************)
userToDocument(user) ==
  [id |-> user.Id,
   username |-> user.Username,
   name |-> user.Name,
   email |-> user.Email,
   bio |-> user.Bio,
   picture |-> user.Picture,
   school |-> user.School,
   country |-> user.Country,
   campus |-> user.Campus,
   info_updated |-> user.InfoUpdated,
   program |-> user.Program,
   year |-> user.Year,
   created_at |-> Unix(user.CreatedAt),
   updated_at |-> Unix(user.UpdatedAt)]

\* Variant: an empty images list is left out of the document.
postToDocument_omitEmptyImages(post) ==
  IF post.Images = <<>>
  THEN [id |-> post.Id,
        user_id |-> post.UserId,
        user_name |-> post.Username,
        user_picture |-> post.UserPicture,
        user_bio |-> post.UserBio,
        user_programme |-> post.UserProgramme,
        user_year |-> post.UserYear,
        user_campus |-> post.UserCampus,
        subject |-> post.Subject,
        title |-> post.Title,
        content |-> post.Content,
        created_at |-> Unix(post.CreatedAt),
        updated_at |-> Unix(post.UpdatedAt)]
  ELSE [id |-> post.Id,
        user_id |-> post.UserId,
        user_name |-> post.Username,
        user_picture |-> post.UserPicture,
        user_bio |-> post.UserBio,
        user_programme |-> post.UserProgramme,
        user_year |-> post.UserYear,
        user_campus |-> post.UserCampus,
        subject |-> post.Subject,
        title |-> post.Title,
        content |-> post.Content,
        images |-> post.Images,
        created_at |-> Unix(post.CreatedAt),
        updated_at |-> Unix(post.UpdatedAt)]

postToDocument(post) ==
  [id |-> post.Id,
   user_id |-> post.UserId,
   user_name |-> post.Username,
   user_picture |-> post.UserPicture,
   user_bio |-> post.UserBio,
   user_programme |-> post.UserProgramme,
   user_year |-> post.UserYear,
   user_campus |-> post.UserCampus,
   subject |-> post.Subject,
   title |-> post.Title,
   content |-> post.Content,
   images |-> post.Images,
   created_at |-> Unix(post.CreatedAt),
   updated_at |-> Unix(post.UpdatedAt)]

(***************************************************************************)
(* The index backend (Typesense), one collection as the set of its         *)
(* documents, at most one per id                                           *)
(***************************************************************************)
Has(coll, id) == \E d \in coll : d.id = id

\* Documents().Create: refused when the id is already there.
Create(coll, doc) ==
  IF Has(coll, doc.id)
  THEN [coll |-> coll, res |-> "conflict"]
  ELSE [coll |-> coll \cup {doc}, res |-> "ok"]

\* Variant: a delete followed by an insert, the insert lost when there was a
\* document to delete.
Upsert_deleteThenInsert(coll, doc) ==
  IF Has(coll, doc.id)
  THEN [coll |-> {d \in coll : d.id # doc.id}, res |-> "ok"]
  ELSE [coll |-> coll \cup {doc}, res |-> "ok"]

\* Variant: a merge that keeps the created_at of the document it finds.
Upsert_keepCreatedAt(coll, doc) ==
  [coll |-> {d \in coll : d.id # doc.id}
              \cup {[doc EXCEPT !.created_at = d.created_at] :
                      d \in {e \in coll : e.id = doc.id}}
              \cup (IF Has(coll, doc.id) THEN {} ELSE {doc}),
   res |-> "ok"]

\* Variant: the document is dropped when the one it finds has a later
\* updated_at.
Upsert_newerWins(coll, doc) ==
  IF \E d \in coll :
       /\ d.id = doc.id
       /\ \/ d.updated_at.hi > doc.updated_at.hi
          \/ d.updated_at.hi = doc.updated_at.hi /\ d.updated_at.lo > doc.updated_at.lo
  THEN [coll |-> coll, res |-> "ok"]
  ELSE [coll |-> {d \in coll : d.id # doc.id} \cup {doc}, res |-> "ok"]

\* Documents().Upsert: the document takes the place of any document of its id.
Upsert(coll, doc) ==
  [coll |-> {d \in coll : d.id # doc.id} \cup {doc}, res |-> "ok"]

\* Variant: the delete takes the id as a filter that matches every document.
Delete_matchAll(coll, id) ==
  IF Has(coll, id)
  THEN [coll |-> {}, res |-> "ok"]
  ELSE [coll |-> coll, res |-> "not_found"]

\* Variant: deleting a document that is not there is a success.
Delete_idempotent(coll, id) ==
  [coll |-> {d \in coll : d.id # id}, res |-> "ok"]

\* Document(id).Delete: refused when there is no such document.
Delete(coll, id) ==
  IF Has(coll, id)
  THEN [coll |-> {d \in coll : d.id # id}, res |-> "ok"]
  ELSE [coll |-> coll, res |-> "not_found"]

\* What the backend does with one call c on collection coll.
Serve(coll, c) ==
  CASE c.op = "create" -> Create(coll, CHOOSE d \in c.doc : TRUE)
    [] c.op = "upsert" -> Upsert(coll, CHOOSE d \in c.doc : TRUE)
    [] c.op = "delete" -> Delete(coll, c.id)

(***************************************************************************)
(* Inputs: the message bodies the bus may carry                            *)
(***************************************************************************)
UserU1B1 ==
  Obj({<<"id", Str("u1")>>, <<"username", Str("alice")>>, <<"bio", Str("b1")>>,
       <<"year", Num(2)>>, <<"info_updated", Bool(TRUE)>>,
       <<"created_at", Time(1000)>>, <<"updated_at", Time(2500)>>})

UserU1B2 ==
  Obj({<<"id", Str("u1")>>, <<"username", Str("alice")>>, <<"bio", Str("b2")>>,
       <<"year", Num(2)>>,
       <<"created_at", Time(1000)>>, <<"updated_at", Time(1500)>>})

\* A user object without "id" (and without most other members).
UserNoId == Obj({<<"bio", Str("b1")>>})

\* "id" is a JSON number: a type json.Unmarshal refuses for a string field.
BadTypeId == Obj({<<"id", Num(7)>>})

PostP1B1 ==
  Obj({<<"id", Str("p1")>>, <<"user_id", Str("u1")>>, <<"username", Str("alice")>>,
       <<"user_bio", Str("b1")>>, <<"title", Str("t1")>>,
       <<"images", Arr(<<"i2", "i1">>)>>,
       <<"created_at", Time(-1500)>>, <<"updated_at", Time(2500)>>})

PostP1B2 ==
  Obj({<<"id", Str("p1")>>, <<"user_id", Str("u1")>>, <<"user_bio", Str("b2")>>,
       <<"updated_at", Time(1500)>>})

UserU2 == Obj({<<"id", Str("u2")>>, <<"username", Str("bob")>>, <<"bio", Str("b1")>>})

DeleteU1 == Obj({<<"id", Str("u1")>>})
DeleteP1 == Obj({<<"id", Str("p1")>>})
EmptyObject == Obj({})

\* The bodies by name: a message of the model records the name of its body.
Body ==
  [x \in {"Garbage", "BadTypeId", "EmptyObject", "UserNoId", "UserU1B1", "UserU1B2",
          "PostP1B1", "PostP1B2", "DeleteU1", "DeleteP1"} |->
     CASE x = "Garbage" -> Garbage
       [] x = "BadTypeId" -> BadTypeId
       [] x = "EmptyObject" -> EmptyObject
       [] x = "UserNoId" -> UserNoId
       [] x = "UserU1B1" -> UserU1B1
       [] x = "UserU1B2" -> UserU1B2
       [] x = "PostP1B1" -> PostP1B1
       [] x = "PostP1B2" -> PostP1B2
       [] x = "DeleteU1" -> DeleteU1
       [] x = "DeleteP1" -> DeleteP1]

\* What json.Unmarshal makes of each body, as a User, a Post and a delete event.
UserOf == [x \in DOMAIN Body |-> DecodeUser(Body[x])]
PostOf == [x \in DOMAIN Body |-> DecodePost(Body[x])]
DeleteEventOf == [x \in DOMAIN Body |-> DecodeDelete(Body[x])]

UserPayloads == {"Garbage", "BadTypeId", "UserNoId", "UserU1B1", "UserU1B2"}
PostPayloads == {"Garbage", "EmptyObject", "PostP1B1", "PostP1B2"}
DeletePayloads == {"Garbage", "BadTypeId", "EmptyObject", "DeleteU1", "DeleteP1"}

Subjects ==
  {"users.created", "users.updated", "users.deleted", "posts.upsert", "posts.deleted"}

Payloads(s) ==
  CASE s \in {"users.created", "users.updated"} -> UserPayloads
    [] s = "posts.upsert" -> PostPayloads
    [] OTHER -> DeletePayloads

(***************************************************************************)
(* State                                                                   *)
(***************************************************************************)
VARIABLES
  pc,          \* where main is: the subscription it registers next, "listening" or "exited"
  conn,        \* the bus connection nc: "connected", "drained" (nc.Drain has run) or "dropped"
  subscribed,  \* the subjects whose subscription is registered
  msgs,        \* the messages delivered to this client, in arrival order
  users,       \* the users collection of the index
  posts,       \* the posts collection of the index
  applied      \* the messages whose backend call the backend has answered, in that order

vars == <<pc, conn, subscribed, msgs, users, posts, applied>>

Message(s, p) ==
  [subject |-> s, payload |-> p, st |-> "pending", calls |-> <<>>, result |-> "none"]

\* The index outlives the process: what earlier runs left in it.
SeedUsers == {userToDocument(DecodeUser(UserU1B1)), userToDocument(DecodeUser(UserU2))}
SeedPosts == {postToDocument(DecodePost(PostP1B1))}

\* main has connected to the bus, deferred nc.Drain() and built the service;
\* it is about to call setupSubscriptions. The index is empty or holds the
\* documents of earlier runs.
Init ==
  /\ pc = "subscribeToUserCreated"
  /\ conn = "connected"
  /\ subscribed = {}
  /\ msgs = <<>>
  /\ \/ users = {} /\ posts = {}
     \/ users = SeedUsers /\ posts = SeedPosts
  /\ applied = <<>>

(***************************************************************************)
(* main: setupSubscriptions registers the five subscriptions in order;     *)
(* a failed registration ends the process with os.Exit(1). os.Exit ends    *)
(* the process at once: the functions main has deferred (nc.Drain) are not *)
(* run and the connection goes down with the process as it is. After the   *)
(* fifth registration main blocks in select {} and never returns.          *)
(***************************************************************************)
\* Variant: a failed registration is logged and setup goes on.
Register_skipFailed(at, s, then) ==
  /\ pc = at
  /\ \/ pc' = then /\ subscribed' = subscribed \cup {s} /\ conn' = conn
     \/ pc' = then /\ subscribed' = subscribed /\ conn' = conn
  /\ UNCHANGED <<msgs, users, posts, applied>>

Register(at, s, then) ==
  /\ pc = at
  /\ \/ pc' = then /\ subscribed' = subscribed \cup {s} /\ conn' = conn
     \/ pc' = "exited" /\ subscribed' = subscribed /\ conn' = "dropped"
  /\ UNCHANGED <<msgs, users, posts, applied>>

subscribeToUserCreated ==
  Register("subscribeToUserCreated", "users.created", "subscribeToUserUpdated")

subscribeToUserUpdated ==
  Register("subscribeToUserUpdated", "users.updated", "subscribeToUserDeleted")

subscribeToUserDeleted ==
  Register("subscribeToUserDeleted", "users.deleted", "subscribeToPostUpsert")

subscribeToPostUpsert ==
  Register("subscribeToPostUpsert", "posts.upsert", "subscribeToPostDeleted")

subscribeToPostDeleted ==
  Register("subscribeToPostDeleted", "posts.deleted", "listening")

(***************************************************************************)
(* The bus hands a message to a registered subscription, which queues it   *)
(***************************************************************************)
Publish(s, p) ==
  /\ pc # "exited"
  /\ s \in subscribed
  /\ Len(msgs) < MaxMsgs
  /\ msgs' = Append(msgs, Message(s, p))
  /\ UNCHANGED <<pc, conn, subscribed, users, posts, applied>>

(***************************************************************************)
(* Dispatch: the subscription's delivery goroutine                         *)
(***************************************************************************)
Pending(s) == {i \in DOMAIN msgs : msgs[i].subject = s /\ msgs[i].st = "pending"}

InFlight(s) == {i \in DOMAIN msgs : msgs[i].subject = s /\ msgs[i].st = "calling"}

\* The message the subscription on s hands to its callback next: the oldest
\* one pending.
NextMsg(s) == CHOOSE i \in Pending(s) : \A j \in Pending(s) : i <= j

\* Variant: a callback per message, each on a goroutine of its own, so that
\* messages of one subject are handled side by side.
CanDispatch_concurrent(s) ==
  /\ pc # "exited"
  /\ Pending(s) # {}

\* Variant: one delivery goroutine for the whole connection, so that a
\* callback on any subject holds back all the others.
CanDispatch_serial(s) ==
  /\ pc # "exited"
  /\ Pending(s) # {}
  /\ \A i \in DOMAIN msgs : msgs[i].st # "calling"

\* The callback of s is called for the next message only after its call for
\* the previous one has returned.
CanDispatch(s) ==
  /\ pc # "exited"
  /\ Pending(s) # {}
  /\ InFlight(s) = {}

(***************************************************************************)
(* The five callbacks, up to the backend call                              *)
(***************************************************************************)
\* if err := json.Unmarshal(...); err != nil { slog.Error(...); return }
DecodeFailed(n) ==
  msgs' = [msgs EXCEPT ![n].st = "done", ![n].result = "decode_error"]

\* The callback sends call c and waits for the answer.
Issue(n, c) ==
  msgs' = [msgs EXCEPT ![n].st = "calling", ![n].calls = Append(@, c)]

\* Variant: users.created applied with Upsert.
onUserCreated_upsert ==
  /\ CanDispatch("users.created")
  /\ LET n == NextMsg("users.created")
         user == UserOf[msgs[n].payload]
         document == userToDocument(user)
     IN IF user.err
        THEN DecodeFailed(n)
        ELSE Issue(n, [coll |-> "users", op |-> "upsert", id |-> document.id,
                       doc |-> {document}])
  /\ UNCHANGED <<pc, conn, subscribed, users, posts, applied>>

onUserCreated ==
  /\ CanDispatch("users.created")
  /\ LET n == NextMsg("users.created")
         user == UserOf[msgs[n].payload]
         document == userToDocument(user)
     IN IF user.err
        THEN DecodeFailed(n)
        ELSE Issue(n, [coll |-> "users", op |-> "create", id |-> document.id,
                       doc |-> {document}])
  /\ UNCHANGED <<pc, conn, subscribed, users, posts, applied>>

\* Variant: users.updated applied with Create.
onUserUpdated_create ==
  /\ CanDispatch("users.updated")
  /\ LET n == NextMsg("users.updated")
         user == UserOf[msgs[n].payload]
         document == userToDocument(user)
     IN IF user.err
        THEN DecodeFailed(n)
        ELSE Issue(n, [coll |-> "users", op |-> "create", id |-> document.id,
                       doc |-> {document}])
  /\ UNCHANGED <<pc, conn, subscribed, users, posts, applied>>

onUserUpdated ==
  /\ CanDispatch("users.updated")
  /\ LET n == NextMsg("users.updated")
         user == UserOf[msgs[n].payload]
         document == userToDocument(user)
     IN IF user.err
        THEN DecodeFailed(n)
        ELSE Issue(n, [coll |-> "users", op |-> "upsert", id |-> document.id,
                       doc |-> {document}])
  /\ UNCHANGED <<pc, conn, subscribed, users, posts, applied>>

\* Variant: users.deleted sent to the posts client.
onUserDeleted_postsClient ==
  /\ CanDispatch("users.deleted")
  /\ LET n == NextMsg("users.deleted")
         deleteEvent == DeleteEventOf[msgs[n].payload]
     IN IF deleteEvent.err
        THEN DecodeFailed(n)
        ELSE Issue(n, [coll |-> "posts", op |-> "delete", id |-> deleteEvent.Id,
                       doc |-> {}])
  /\ UNCHANGED <<pc, conn, subscribed, users, posts, applied>>

onUserDeleted ==
  /\ CanDispatch("users.deleted")
  /\ LET n == NextMsg("users.deleted")
         deleteEvent == DeleteEventOf[msgs[n].payload]
     IN IF deleteEvent.err
        THEN DecodeFailed(n)
        ELSE Issue(n, [coll |-> "users", op |-> "delete", id |-> deleteEvent.Id,
                       doc |-> {}])
  /\ UNCHANGED <<pc, conn, subscribed, users, posts, applied>>

\* Variant: the decode error of posts.upsert is not looked at.
onPostUpsert_ignoreErr ==
  /\ CanDispatch("posts.upsert")
  /\ LET n == NextMsg("posts.upsert")
         post == PostOf[msgs[n].payload]
         document == postToDocument(post)
     IN Issue(n, [coll |-> "posts", op |-> "upsert", id |-> document.id,
                  doc |-> {document}])
  /\ UNCHANGED <<pc, conn, subscribed, users, posts, applied>>

onPostUpsert ==
  /\ CanDispatch("posts.upsert")
  /\ LET n == NextMsg("posts.upsert")
         post == PostOf[msgs[n].payload]
         document == postToDocument(post)
     IN IF post.err
        THEN DecodeFailed(n)
        ELSE Issue(n, [coll |-> "posts", op |-> "upsert", id |-> document.id,
                       doc |-> {document}])
  /\ UNCHANGED <<pc, conn, subscribed, users, posts, applied>>

\* Variant: posts.deleted sent to the users client.
onPostDeleted_usersClient ==
  /\ CanDispatch("posts.deleted")
  /\ LET n == NextMsg("posts.deleted")
         deleteEvent == DeleteEventOf[msgs[n].payload]
     IN IF deleteEvent.err
        THEN DecodeFailed(n)
        ELSE Issue(n, [coll |-> "users", op |-> "delete", id |-> deleteEvent.Id,
                       doc |-> {}])
  /\ UNCHANGED <<pc, conn, subscribed, users, posts, applied>>

onPostDeleted ==
  /\ CanDispatch("posts.deleted")
  /\ LET n == NextMsg("posts.deleted")
         deleteEvent == DeleteEventOf[msgs[n].payload]
     IN IF deleteEvent.err
        THEN DecodeFailed(n)
        ELSE Issue(n, [coll |-> "posts", op |-> "delete", id |-> deleteEvent.Id,
                       doc |-> {}])
  /\ UNCHANGED <<pc, conn, subscribed, users, posts, applied>>

(***************************************************************************)
(* The backend answers a call and the callback returns                     *)
(***************************************************************************)
\* Variant: a failed call is sent again.
Returned_retry(n, res) ==
  IF res = "ok"
  THEN msgs' = [msgs EXCEPT ![n].st = "done", ![n].result = res]
  ELSE msgs' = [msgs EXCEPT ![n].calls = Append(@, @[Len(@)]), ![n].result = res]

\* if err != nil { slog.Error(...); return }; slog.Info(...): either way the
\* callback is over, with res the outcome of its call.
Returned(n, res) ==
  msgs' = [msgs EXCEPT ![n].st = "done", ![n].result = res]

CallOf(n) == msgs[n].calls[Len(msgs[n].calls)]

\* The backend serves the call of message n and answers.
Answer(n) ==
  /\ pc # "exited"
  /\ n \in DOMAIN msgs
  /\ msgs[n].st = "calling"
  /\ LET c == CallOf(n)
         r == Serve(IF c.coll = "users" THEN users ELSE posts, c)
     IN /\ users' = IF c.coll = "users" THEN r.coll ELSE users
        /\ posts' = IF c.coll = "posts" THEN r.coll ELSE posts
        /\ Returned(n, r.res)
  /\ applied' = Append(applied, n)
  /\ UNCHANGED <<pc, conn, subscribed>>

\* The call fails without reaching the index (the backend is down, the
\* connection breaks).
Unavailable(n) ==
  /\ pc # "exited"
  /\ n \in DOMAIN msgs
  /\ msgs[n].st = "calling"
  /\ Returned(n, "unavailable")
  /\ UNCHANGED <<pc, conn, subscribed, users, posts, applied>>

Next ==
  \/ subscribeToUserCreated
  \/ subscribeToUserUpdated
  \/ subscribeToUserDeleted
  \/ subscribeToPostUpsert
  \/ subscribeToPostDeleted
  \/ \E s \in Subjects : \E p \in Payloads(s) : Publish(s, p)
  \/ onUserCreated
  \/ onUserUpdated
  \/ onUserDeleted
  \/ onPostUpsert
  \/ onPostDeleted
  \/ \E n \in 1..MaxMsgs : Answer(n)
  \/ \E n \in 1..MaxMsgs : Unavailable(n)

Spec == Init /\ [][Next]_vars

\* The callback of subject s.
On(s) ==
  CASE s = "users.created" -> onUserCreated
    [] s = "users.updated" -> onUserUpdated
    [] s = "users.deleted" -> onUserDeleted
    [] s = "posts.upsert" -> onPostUpsert
    [] s = "posts.deleted" -> onPostDeleted

(***************************************************************************)
(* Scheduling. The Go runtime keeps running every subscription's delivery  *)
(* goroutine, so a callback that can start does start. A backend call is   *)
(* answered in the end, except that the calls of one subject,              *)
(* StalledSubject, may stay unanswered: the stalled handler. Its call is   *)
(* made with context.Background(), which never cancels it.                 *)
(***************************************************************************)
StalledSubject == "users.created"

Reply(n) ==
  /\ n \in DOMAIN msgs
  /\ msgs[n].subject # StalledSubject
  /\ Answer(n) \/ Unavailable(n)

FairSpec ==
  /\ Spec
  /\ \A s \in Subjects : WF_vars(On(s))
  /\ \A n \in 1..MaxMsgs : WF_vars(Reply(n))

(***************************************************************************)
(* Properties                                                              *)
(***************************************************************************)
UserSubjects == {"users.created", "users.updated", "users.deleted"}

\* The bodies that are a full record, or a delete reference, with an id.
WellFormed == {"UserU1B1", "UserU1B2", "PostP1B1", "PostP1B2", "DeleteU1", "DeleteP1"}

Started(n) == msgs[n].st # "pending"
Done(n) == msgs[n].st = "done"

\* The subject table of the synchronizer: the collection and the operation
\* each subject is bound to.
C1_Table ==
  [s \in Subjects |->
     CASE s = "users.created" -> [coll |-> "users", op |-> "create"]
       [] s = "users.updated" -> [coll |-> "users", op |-> "upsert"]
       [] s = "users.deleted" -> [coll |-> "users", op |-> "delete"]
       [] s = "posts.upsert" -> [coll |-> "posts", op |-> "upsert"]
       [] s = "posts.deleted" -> [coll |-> "posts", op |-> "delete"]]

\* C1: each subject is bound to one fixed pipeline. Every backend call a
\* handler issues is the operation of C1_Table on the collection of C1_Table,
\* for the id of the message; a handler issues at most one call, and exactly
\* one once it has started on a well-formed message; and a step that changes
\* the users (posts) collection is the answer to a call of a users (posts)
\* subject, so no handler touches the other collection.
C1_FixedPipeline ==
  [][/\ \A n \in DOMAIN msgs' :
          LET m == msgs'[n] IN
          /\ Len(m.calls) <= 1
          /\ \A i \in DOMAIN m.calls :
               /\ m.calls[i].coll = C1_Table[m.subject].coll
               /\ m.calls[i].op = C1_Table[m.subject].op
               /\ m.calls[i].id = Body[m.payload].fields["id"].s
          /\ (m.st # "pending" /\ m.payload \in WellFormed) => Len(m.calls) = 1
     /\ users' # users =>
          \E n \in DOMAIN msgs :
            /\ msgs[n].subject \in UserSubjects
            /\ msgs[n].st = "calling" /\ msgs'[n].st = "done"
     /\ posts' # posts =>
          \E n \in DOMAIN msgs :
            /\ msgs[n].subject \notin UserSubjects
            /\ msgs[n].st = "calling" /\ msgs'[n].st = "done"]_vars

\* A users message and a posts message have both been applied to the index
\* with success.
C1_Witness ==
  \E i, j \in DOMAIN msgs :
    /\ msgs[i].subject = "users.deleted" /\ msgs[i].result = "ok"
    /\ msgs[j].subject = "posts.deleted" /\ msgs[j].result = "ok"

\* Whether the backend has served the call of message n.
Served(n) == \E k \in DOMAIN applied : applied[k] = n

\* Whether message n is about user id (whatever its subject does with it).
TouchesUser(n, id) ==
  /\ msgs[n].subject \in UserSubjects
  /\ Body[msgs[n].payload].fields["id"].s = id

\* C2: users.created for u1 (bio b1) followed by users.updated for u1 (bio
\* b2), no other message about u1, both calls answered by the backend
\* (neither lost on the way): once both handlers are done, the stored
\* document of u1 has bio b2, in whatever order the two calls were served.
C2_UpdateAfterCreate ==
  \A i, j \in DOMAIN msgs :
    ( /\ i < j
      /\ msgs[i].subject = "users.created" /\ msgs[i].payload = "UserU1B1"
      /\ msgs[j].subject = "users.updated" /\ msgs[j].payload = "UserU1B2"
      /\ Done(i) /\ Served(i)
      /\ Done(j) /\ Served(j)
      /\ \A k \in DOMAIN msgs \ {i, j} : ~TouchesUser(k, "u1") )
    => /\ \E d \in users : d.id = "u1" /\ d.bio = "b2"
       /\ \A d \in users : d.id = "u1" => d.bio = "b2"

\* The update was served before the create, on an index that did not hold u1:
\* the create was refused and the document is the update's.
C2_Witness ==
  /\ Len(msgs) >= 2
  /\ msgs[1].subject = "users.created" /\ msgs[1].payload = "UserU1B1"
  /\ msgs[2].subject = "users.updated" /\ msgs[2].payload = "UserU1B2"
  /\ Len(applied) >= 2 /\ applied[1] = 2 /\ applied[2] = 1
  /\ msgs[1].result = "conflict" /\ msgs[2].result = "ok"
  /\ \E d \in users : d.id = "u1" /\ d.bio = "b2"

\* Whether the body carries a string "id" that is not empty.
HasIdentity(p) == p.kind = "object" /\ p.fields["id"].t = "string" /\ p.fields["id"].s # ""

\* C3: a payload that misses its id, or has a wrongly typed member, is a
\* decode failure; no handler goes on to a backend call with an empty id.
C3_DecodeRejection ==
  \A n \in DOMAIN msgs :
    /\ (Started(n) /\ ~HasIdentity(Body[msgs[n].payload])) =>
         (Done(n) /\ msgs[n].result = "decode_error" /\ msgs[n].calls = <<>>)
    /\ \A i \in DOMAIN msgs[n].calls : msgs[n].calls[i].id # ""

\* C4: a body that is not JSON, on any of the five subjects: the handler
\* ends with a decode failure and without a backend call, and the step that
\* handles it changes neither collection, nor the subscriptions, nor main.
C4_MalformedDropped ==
  [][\A n \in DOMAIN msgs :
       Body[msgs[n].payload].kind = "garbage" =>
         /\ msgs'[n].st # "pending" =>
              /\ msgs'[n].st = "done"
              /\ msgs'[n].result = "decode_error"
              /\ msgs'[n].calls = <<>>
         /\ (msgs[n].st = "pending" /\ msgs'[n].st # "pending") =>
              /\ users' = users /\ posts' = posts /\ applied' = applied
              /\ pc' = pc /\ subscribed' = subscribed]_vars

\* A posts.upsert message that is not JSON has been handled, on an index
\* that holds documents.
C4_Witness ==
  \E n \in DOMAIN msgs :
    /\ msgs[n].subject = "posts.upsert" /\ msgs[n].payload = "Garbage"
    /\ Done(n) /\ msgs[n].result = "decode_error"
    /\ posts = SeedPosts /\ pc = "listening"

\* The place of message n in the order in which the backend served the calls.
Pos(n) == CHOOSE k \in DOMAIN applied : applied[k] = n

\* Message n is the one its subscription hands to the callback next, and the
\* callback of its subject is not running.
Deliverable(n) ==
  /\ pc # "exited"
  /\ msgs[n].st = "pending"
  /\ \A k \in Pending(msgs[n].subject) : n <= k
  /\ InFlight(msgs[n].subject) = {}

IdOf(n) == Body[msgs[n].payload].fields["id"].s

\* C5: a users.updated and a users.deleted message for the same id are not
\* serialized. While the handler of one is in its backend call the other
\* can start; with both calls in flight the backend can serve either first;
\* and when both have succeeded the document is absent if the delete was
\* served last and present if the upsert was served last.
C5_EitherOrder ==
  \A i, j \in DOMAIN msgs :
    ( /\ msgs[i].subject = "users.updated" /\ HasIdentity(Body[msgs[i].payload])
      /\ msgs[j].subject = "users.deleted" /\ HasIdentity(Body[msgs[j].payload])
      /\ IdOf(i) = IdOf(j) )
    => /\ (msgs[i].st = "calling" /\ Deliverable(j)) => ENABLED onUserDeleted
       /\ (msgs[j].st = "calling" /\ Deliverable(i)) => ENABLED onUserUpdated
       /\ (msgs[i].st = "calling" /\ msgs[j].st = "calling" /\ pc # "exited")
            => (ENABLED Answer(i)) /\ (ENABLED Answer(j))
       /\ ( /\ msgs[i].result = "ok" /\ msgs[j].result = "ok"
            /\ \A k \in DOMAIN msgs \ {i, j} : ~TouchesUser(k, IdOf(i)) )
            => (Has(users, IdOf(i)) <=> Pos(j) < Pos(i))

\* The update arrived first and the delete second, the delete was served
\* first, and the upsert then put the document back.
C5_Witness ==
  /\ Len(msgs) >= 2
  /\ msgs[1].subject = "users.updated" /\ msgs[1].payload = "UserU1B2"
  /\ msgs[2].subject = "users.deleted" /\ msgs[2].payload = "DeleteU1"
  /\ msgs[1].result = "ok" /\ msgs[2].result = "ok"
  /\ applied = <<2, 1>>
  /\ \E d \in users : d.id = "u1" /\ d.bio = "b2"

\* The same two messages served in their order of arrival: the document is gone.
C5_WitnessInOrder ==
  /\ Len(msgs) >= 2
  /\ msgs[1].subject = "users.updated" /\ msgs[1].payload = "UserU1B2"
  /\ msgs[2].subject = "users.deleted" /\ msgs[2].payload = "DeleteU1"
  /\ msgs[1].result = "ok" /\ msgs[2].result = "ok"
  /\ applied = <<1, 2>>
  /\ ~Has(users, "u1")

\* Subject t has a message pending and no handler running.
Waiting(t) == pc # "exited" /\ Pending(t) # {} /\ InFlight(t) = {}

\* The callback of subject t can take a step.
CanStart(t) ==
  \/ t = "users.created" /\ ENABLED onUserCreated
  \/ t = "users.updated" /\ ENABLED onUserUpdated
  \/ t = "users.deleted" /\ ENABLED onUserDeleted
  \/ t = "posts.upsert" /\ ENABLED onPostUpsert
  \/ t = "posts.deleted" /\ ENABLED onPostDeleted

\* C6 as stated: deliveries on one subject are not ordered or excluded from
\* one another, so while the handler of a message is in its backend call the
\* next message of the same subject can be handed to the handler.
C6_SameSubjectConcurrent ==
  \A i, j \in DOMAIN msgs :
    ( /\ i < j /\ msgs[i].subject = msgs[j].subject
      /\ msgs[i].st = "calling"
      /\ pc # "exited"
      /\ msgs[j].st = "pending" /\ \A k \in Pending(msgs[j].subject) : j <= k )
    => CanStart(msgs[j].subject)

\* C6, amended: deliveries on different subjects are neither ordered nor
\* excluded from one another, but deliveries on one subject are handled one
\* at a time in arrival order: at most one handler per subject is in flight,
\* a message is started only when every earlier message of its subject is
\* done, and the calls of one subject reach the index in arrival order.
C6_SameSubjectSerial ==
  /\ \A s \in Subjects : Cardinality(InFlight(s)) <= 1
  /\ \A i, j \in DOMAIN msgs :
       (i < j /\ msgs[i].subject = msgs[j].subject) =>
         /\ Started(j) => Done(i)
         /\ (Served(i) /\ Served(j)) => Pos(i) < Pos(j)
  /\ \A t \in Subjects :
       ( /\ Waiting(t)
         /\ \E i \in DOMAIN msgs : msgs[i].subject # t /\ msgs[i].st = "calling" )
       => CanStart(t)

\* Two users.updated messages for u1: the first is in its backend call, the
\* second waits.
C6_Witness ==
  /\ Len(msgs) >= 2
  /\ msgs[1].subject = "users.updated" /\ msgs[1].payload = "UserU1B1"
  /\ msgs[2].subject = "users.updated" /\ msgs[2].payload = "UserU1B2"
  /\ msgs[1].st = "calling" /\ msgs[2].st = "pending"
  /\ pc = "listening"

\* The position of the handler of the n-th message, if there is an n-th message.
StOf(n) == IF n \in DOMAIN msgs THEN msgs[n].st ELSE "none"

C8_OthersProgress ==
  \A n \in 1..MaxMsgs :
    []((n \in DOMAIN msgs /\ msgs[n].subject # StalledSubject)
       => <>(StOf(n) = "done" \/ pc = "exited"))

\* A users.created handler is still in its backend call while a message
\* that arrived after it on another subject has been handled to its end.
C8_Witness ==
  /\ Len(msgs) >= 2
  /\ msgs[1].subject = StalledSubject /\ msgs[1].st = "calling"
  /\ msgs[2].subject = "users.updated" /\ msgs[2].result = "ok"

Failed(res) == res \in {"decode_error", "conflict", "not_found", "unavailable"}

\* C9: a failure stays with its message. No message ever has more than one
\* backend call, and none after a decode failure; a handled message is never
\* taken up again; the step in which a handler ends in failure changes
\* neither collection, leaves every subscription registered, leaves main
\* where it is and leaves no handler of that subject in flight; and in every
\* state, whatever failed before, the next message of a subject whose
\* handler is not running can be handed to the handler.
C9_FailureContained ==
  /\ [](\A t \in Subjects : Waiting(t) => CanStart(t))
  /\ [][\A n \in DOMAIN msgs :
          /\ Len(msgs'[n].calls) <= 1
          /\ msgs'[n].result = "decode_error" => msgs'[n].calls = <<>>
          /\ msgs[n].st = "done" => msgs'[n] = msgs[n]
          /\ (msgs[n].st # "done" /\ Failed(msgs'[n].result)) =>
               /\ msgs'[n].st = "done"
               /\ users' = users /\ posts' = posts
               /\ subscribed' = subscribed /\ pc' = pc
               /\ \A k \in DOMAIN msgs' :
                    msgs'[k].subject = msgs'[n].subject => msgs'[k].st # "calling"
               /\ \A k \in DOMAIN msgs \ {n} : msgs'[k] = msgs[k]]_vars

\* A users.deleted message failed (no such document) and the users.deleted
\* message after it was applied with success.
C9_Witness ==
  /\ Len(msgs) >= 2
  /\ msgs[1].subject = "users.deleted" /\ msgs[1].result = "not_found"
  /\ msgs[2].subject = "users.deleted" /\ msgs[2].result = "ok"
  /\ pc = "listening" /\ subscribed = Subjects

\* C10: the answer to the Create of a users.created message never changes
\* or removes a stored document; when a document of that id is stored the
\* create fails, the collection stays as it is and neither main nor the
\* subscriptions are touched; and a stored document is replaced by another
\* of its id only in the answer to a successful users.updated call.
C10_CreateNeverOverwrites ==
  [][/\ \A n \in DOMAIN msgs :
          ( /\ msgs[n].subject = "users.created"
            /\ msgs[n].st = "calling" /\ msgs'[n].st # "calling" )
          => /\ \A d \in users : d \in users'
             /\ Has(users, CallOf(n).id) =>
                  /\ users' = users
                  /\ msgs'[n].st = "done"
                  /\ msgs'[n].result \in {"conflict", "unavailable"}
                  /\ pc' = pc /\ subscribed' = subscribed
     /\ \A d \in users :
          (d \notin users' /\ Has(users', d.id)) =>
            \E n \in DOMAIN msgs :
              /\ msgs[n].subject = "users.updated"
              /\ msgs[n].st = "calling" /\ msgs'[n].result = "ok"]_vars

\* A users.created message for u1 with another bio was refused: the stored
\* document of u1 is the one that was there.
C10_Witness ==
  \E n \in DOMAIN msgs :
    /\ msgs[n].subject = "users.created" /\ msgs[n].payload = "UserU1B2"
    /\ msgs[n].result = "conflict"
    /\ users = SeedUsers

\* Whether the call of message k is on the collection and the id of the call
\* of message n.
SameTarget(k, n) ==
  /\ CallOf(k).coll = CallOf(n).coll
  /\ CallOf(k).id = CallOf(n).id

\* Message j is a redelivery of a message the backend has served with
\* success, and since then the backend has served no call on that id.
Redelivered(j) ==
  \E i \in DOMAIN msgs :
    /\ i # j
    /\ msgs[i].subject = msgs[j].subject /\ msgs[i].payload = msgs[j].payload
    /\ Served(i) /\ msgs[i].result = "ok"
    /\ \A k \in DOMAIN applied : k > Pos(i) => ~SameTarget(applied[k], j)

\* C11: upsert is idempotent. When the backend answers the Upsert of a
\* users.updated or posts.upsert message that is a redelivery of a message
\* already applied, with no call on that id served in between, the answer is
\* a success and leaves both collections as the first handling left them.
C11_UpsertIdempotent ==
  [][\A j \in DOMAIN msgs :
       ( /\ msgs[j].subject \in {"users.updated", "posts.upsert"}
         /\ msgs[j].st = "calling"
         /\ applied' = Append(applied, j)
         /\ Redelivered(j) )
       => /\ users' = users /\ posts' = posts
          /\ msgs'[j].result = "ok"]_vars

\* The same users.updated message was applied twice in succession on an
\* index that held another document of u1: the index holds the document of
\* the message, once.
C11_Witness ==
  /\ Len(msgs) = 2
  /\ msgs[1].subject = "users.updated" /\ msgs[1].payload = "UserU1B2"
  /\ msgs[2] = msgs[1]
  /\ msgs[1].result = "ok" /\ Done(2)
  /\ applied = <<1, 2>>
  /\ users = {userToDocument(UserOf["UserU1B2"]), userToDocument(DecodeUser(UserU2))}

DeleteSubjects == {"users.deleted", "posts.deleted"}

\* The step is the backend's answer to the call of message n.
Answered(n) ==
  /\ msgs[n].st = "calling"
  /\ applied' = Append(applied, n)

\* C12: delete removes exactly one document. When the delete-by-id of a
\* users.deleted (posts.deleted) message succeeds, right after the answer the
\* collection holds no document of that id, it holds every document of
\* another id it held and nothing else, one document less in all, and the
\* other collection is as it was.
C12_DeleteExactlyOne ==
  [][\A n \in DOMAIN msgs :
       ( /\ msgs[n].subject \in DeleteSubjects
         /\ Answered(n)
         /\ msgs'[n].result = "ok" )
       => LET id == CallOf(n).id
              before == IF msgs[n].subject = "users.deleted" THEN users ELSE posts
              after == IF msgs[n].subject = "users.deleted" THEN users' ELSE posts'
          IN /\ ~Has(after, id)
             /\ after = {d \in before : d.id # id}
             /\ Cardinality(after) = Cardinality(before) - 1
             /\ msgs[n].subject = "users.deleted" => posts' = posts
             /\ msgs[n].subject = "posts.deleted" => users' = users]_vars

\* users.deleted for u1 has succeeded on an index that held u1, u2 and a
\* post: u2 and the post are what is left.
C12_Witness ==
  \E n \in DOMAIN msgs :
    /\ msgs[n].subject = "users.deleted" /\ msgs[n].payload = "DeleteU1"
    /\ msgs[n].result = "ok"
    /\ users = {userToDocument(DecodeUser(UserU2))}
    /\ posts = SeedPosts

\* C13: a delete for an id the collection holds no document of is an error
\* the process recovers from, not a success. The backend's answer to the
\* delete of a users.deleted (posts.deleted) message whose id is not in the
\* collection makes the handler return with the backend's error; the step
\* creates no document, changes neither collection, and leaves main and the
\* subscriptions as they were.
C13_MissingDeleteIsError ==
  [][\A n \in DOMAIN msgs :
       ( /\ msgs[n].subject \in DeleteSubjects
         /\ Answered(n)
         /\ ~Has(IF msgs[n].subject = "users.deleted" THEN users ELSE posts,
                 CallOf(n).id) )
       => /\ msgs'[n].st = "done"
          /\ msgs'[n].result = "not_found"
          /\ users' = users /\ posts' = posts
          /\ pc' = pc /\ pc' # "exited"
          /\ subscribed' = subscribed]_vars

\* posts.deleted for p1 was refused on an index without posts, and the
\* process went on to handle the next message.
C13_Witness ==
  /\ Len(msgs) = 2
  /\ msgs[1].subject = "posts.deleted" /\ msgs[1].payload = "DeleteP1"
  /\ msgs[1].result = "not_found" /\ Done(1)
  /\ posts = {}
  /\ Done(2) /\ msgs[2].result = "ok"
  /\ pc = "listening"

\* The places of main during setup, in the order of setupSubscriptions, and
\* the subject each registers.
SetupOrder ==
  <<"subscribeToUserCreated", "subscribeToUserUpdated", "subscribeToUserDeleted",
    "subscribeToPostUpsert", "subscribeToPostDeleted", "listening">>

SubjectAt ==
  <<"users.created", "users.updated", "users.deleted", "posts.upsert", "posts.deleted">>

\* C14 as stated: main reaches the listening state only with all five
\* subjects subscribed, and no handler starts on a message while fewer than
\* five are subscribed.
C14_NothingHandledBeforeAllFive ==
  /\ pc = "listening" => subscribed = Subjects
  /\ \A n \in DOMAIN msgs : Started(n) => subscribed = Subjects

\* C14, amended: startup is all-or-nothing for the listening state. Each
\* registration is tried once, in the order of setupSubscriptions: main
\* either adds the subject and moves to the next registration, or the
\* process exits there and then; it is in the listening state only with all
\* five subjects subscribed; and once exited the process does nothing more.
\* (A message on a subject already registered may be handled while the later
\* registrations are still to come.)
C14_AllOrNothingListening ==
  [][/\ pc' # pc =>
          \E k \in 1..5 :
            /\ pc = SetupOrder[k]
            /\ \/ /\ pc' = SetupOrder[k + 1]
                  /\ subscribed' = subscribed \cup {SubjectAt[k]}
               \/ /\ pc' = "exited"
                  /\ subscribed' = subscribed
     /\ subscribed' # subscribed => pc' # pc
     /\ pc' = "listening" => subscribed' = Subjects
     /\ pc' = "exited" => subscribed' # Subjects
     /\ pc # "exited"]_vars

\* The third registration failed after a message on the first subject had
\* been applied to the index: the process has exited with two subjects
\* subscribed and one message handled.
C14_Witness ==
  /\ pc = "exited"
  /\ subscribed = {"users.created", "users.updated"}
  /\ \E n \in DOMAIN msgs : msgs[n].subject = "users.created" /\ msgs[n].result = "ok"

UpsertSubjects == {"users.updated", "posts.upsert"}

\* The document key that holds the payload member k of a post.
PostDocKey(k) == IF k = "username" THEN "user_name" ELSE k

\* What a document holds for a member of type ty that the payload lacks: the
\* zero value of the Go field, a timestamp's being the epoch seconds of the
\* zero time.
ZeroStored(ty) ==
  CASE ty = "string" -> [v |-> ""]
    [] ty = "number" -> [v |-> 0]
    [] ty = "bool" -> [v |-> FALSE]
    [] ty = "array" -> [v |-> <<>>]
    [] ty = "time" -> [v |-> Unix(ZeroTime)]

\* C15: upsert replaces the stored document wholesale. When the Upsert of a
\* users.updated (posts.upsert) message succeeds, right after the answer the
\* collection holds for that id exactly the mapper's output for the decoded
\* record: every member the payload lacks is stored as its zero value,
\* whatever the document stored before held.
C15_UpsertReplacesWholesale ==
  [][\A n \in DOMAIN msgs :
       ( /\ msgs[n].subject \in UpsertSubjects
         /\ Answered(n)
         /\ msgs'[n].result = "ok" )
       => LET isUser == msgs[n].subject = "users.updated"
              p == msgs[n].payload
              sent == IF isUser THEN userToDocument(UserOf[p])
                                ELSE postToDocument(PostOf[p])
              stored == {d \in (IF isUser THEN users' ELSE posts') : d.id = sent.id}
          IN /\ stored = {sent}
             /\ \A d \in stored :
                  IF isUser
                  THEN \A k \in UserKeys :
                         Body[p].fields[k].t = "absent" =>
                           [v |-> d[k]] = ZeroStored(UserFieldType[k])
                  ELSE \A k \in PostKeys :
                         Body[p].fields[k].t = "absent" =>
                           [v |-> d[PostDocKey(k)]] = ZeroStored(PostFieldType[k])]_vars

\* posts.upsert for p1 without title, images and created_at has succeeded on
\* an index whose document of p1 had them: the stored document has the zero
\* values.
C15_Witness ==
  /\ users = SeedUsers
  /\ Len(applied) = 1
  /\ msgs[applied[1]].subject = "posts.upsert"
  /\ msgs[applied[1]].payload = "PostP1B2"
  /\ msgs[applied[1]].result = "ok"
  /\ \E d \in posts :
       /\ posts = {d}
       /\ d.id = "p1" /\ d.user_bio = "b2"
       /\ d.title = "" /\ d.images = <<>> /\ d.user_name = ""
       /\ d.created_at = Unix(ZeroTime)

\* C16: on every path by which the process exits after the connection to the
\* bus was established, the connection is drained before the exit: a process
\* that has exited has a drained connection.
C16_DrainedBeforeExit ==
  pc = "exited" => conn = "drained"

\* The fields of a posts document copied from the user who wrote the post.
DenormalizedUserFields ==
  {"user_name", "user_picture", "user_bio", "user_programme", "user_year", "user_campus"}

\* C17: user events never change the posts collection and post events never
\* change the users collection. The answer to the call of a users.created,
\* users.updated or users.deleted message leaves every posts document as it
\* was, and the answer to a posts.upsert or posts.deleted call leaves every
\* users document as it was; no other step changes a collection; and a
\* stored posts document gets another value in one of its denormalized user
\* fields only in the answer to a successful posts.upsert for its id.
C17_CollectionsIndependent ==
  [][/\ \A n \in DOMAIN msgs :
          (msgs[n].st # "done" /\ msgs'[n].st = "done") =>
            /\ msgs[n].subject \in UserSubjects => posts' = posts
            /\ msgs[n].subject \notin UserSubjects => users' = users
     /\ (\A n \in DOMAIN msgs : msgs'[n].st = msgs[n].st) =>
          (users' = users /\ posts' = posts)
     /\ \A d \in posts : \A e \in posts' :
          (e.id = d.id /\ \E f \in DenormalizedUserFields : e[f] # d[f]) =>
            \E n \in DOMAIN msgs :
              /\ msgs[n].subject = "posts.upsert"
              /\ Answered(n)
              /\ msgs'[n].result = "ok"
              /\ CallOf(n).id = d.id]_vars

\* Two user messages have been applied with success and have left u1 with
\* the bio b2: the post of u1 is stored as before, with the bio b1 copied
\* from its author.
C17_Witness ==
  /\ Len(msgs) = 2
  /\ \A n \in DOMAIN msgs : msgs[n].subject \in UserSubjects /\ msgs[n].result = "ok"
  /\ \E d \in users : d.id = "u1" /\ d.bio = "b2"
  /\ posts = SeedPosts
  /\ \E d \in posts : d.user_id = "u1" /\ d.user_bio = "b1"

\* The keys of the two collection schemas.
UsersSchema ==
  {"id", "username", "name", "email", "bio", "picture", "school", "country",
   "campus", "info_updated", "program", "year", "created_at", "updated_at"}

PostsSchema ==
  {"id", "user_id", "user_name", "user_picture", "user_bio", "user_programme",
   "user_year", "user_campus", "subject", "title", "content", "images",
   "created_at", "updated_at"}

\* The documents the handlers have sent: those of the Create and Upsert calls.
SentDocs(coll) ==
  UNION {UNION {msgs[n].calls[i].doc :
                  i \in {j \in DOMAIN msgs[n].calls : msgs[n].calls[j].coll = coll}} :
           n \in DOMAIN msgs}

\* C18: every document sent to the index has exactly the 14 keys of its
\* collection's schema; a member the payload lacks is in the document with
\* its zero value; and the images of a post are the payload's list in the
\* payload's order.
C18_FullSchemaDocuments ==
  /\ \A d \in SentDocs("users") : DOMAIN d = UsersSchema
  /\ \A d \in SentDocs("posts") : DOMAIN d = PostsSchema
  /\ Cardinality(UsersSchema) = 14 /\ Cardinality(PostsSchema) = 14
  /\ \A n \in DOMAIN msgs : \A i \in DOMAIN msgs[n].calls :
       \A d \in msgs[n].calls[i].doc :
         LET p == Body[msgs[n].payload] IN
         IF msgs[n].subject \in UserSubjects
         THEN \A k \in UserKeys :
                p.fields[k].t = "absent" =>
                  (k \in DOMAIN d /\ [v |-> d[k]] = ZeroStored(UserFieldType[k]))
         ELSE /\ \A k \in PostKeys :
                   p.fields[k].t = "absent" =>
                     /\ PostDocKey(k) \in DOMAIN d
                     /\ [v |-> d[PostDocKey(k)]] = ZeroStored(PostFieldType[k])
              /\ "images" \in DOMAIN d
              /\ d.images = p.fields["images"].l

\* A post with the images i2, i1 (in that order) and a user with nothing but
\* a bio have both been sent to the index.
C18_Witness ==
  /\ \E n \in DOMAIN msgs :
       /\ msgs[n].payload = "PostP1B1"
       /\ \E d \in SentDocs("posts") : d.images = <<"i2", "i1">>
  /\ \E n \in DOMAIN msgs :
       /\ msgs[n].payload = "UserNoId"
       /\ \E d \in SentDocs("users") : d.id = "" /\ d.bio = "b1" /\ d.year = 0

\* Whether epoch seconds v (an int64 as hi, lo) is the second that instant
\* ms (milliseconds since the epoch) lies in: the instant without its
\* sub-second part.
TruncatedToSecond(v, ms) ==
  LET sec == v.hi * 1000000000 + v.lo IN
  /\ sec * 1000 <= ms
  /\ ms < (sec + 1) * 1000

\* C19: in every document sent, created_at and updated_at are the epoch
\* seconds of the payload's timestamp truncated to the second, also for a
\* timestamp with a sub-second part and for one before the epoch; and
\* mapping the record of the message once more gives the very document that
\* was sent.
C19_TimestampSeconds ==
  \A n \in DOMAIN msgs : \A i \in DOMAIN msgs[n].calls :
    \A d \in msgs[n].calls[i].doc :
      LET p == msgs[n].payload IN
      /\ \A f \in {"created_at", "updated_at"} :
           Body[p].fields[f].t = "time" =>
             TruncatedToSecond(d[f], Body[p].fields[f].n)
      /\ msgs[n].subject \in UserSubjects => d = userToDocument(UserOf[p])
      /\ msgs[n].subject = "posts.upsert" => d = postToDocument(PostOf[p])

\* A post created 1.5 s before the epoch and updated 2.5 s after it has been
\* sent with created_at -2 and updated_at 2.
C19_Witness ==
  \E n \in DOMAIN msgs :
    /\ msgs[n].payload = "PostP1B1"
    /\ Body["PostP1B1"].fields["created_at"].n = -1500
    /\ Body["PostP1B1"].fields["updated_at"].n = 2500
    /\ \E d \in SentDocs("posts") :
         /\ d.created_at = Wide(-2)
         /\ d.updated_at = Wide(2)

\* Whether epoch seconds a (an int64 as hi, lo) is later than b.
Later(a, b) == a.hi > b.hi \/ (a.hi = b.hi /\ a.lo > b.lo)

\* C20: the last upsert applied wins, whatever the updated_at. A
\* users.updated or posts.upsert handler that has decoded its message sends
\* the Upsert of the mapped document whatever the index holds; and when the
\* backend answers it while the collection holds a document of that id with
\* a later updated_at, the upsert succeeds and the document sent takes the
\* place of the stored one, so that the stored updated_at has decreased.
C20_LastUpsertWins ==
  [][\A n \in DOMAIN msgs :
       msgs[n].subject \in UpsertSubjects =>
         LET isUser == msgs[n].subject = "users.updated"
             p == msgs[n].payload
             failed == IF isUser THEN UserOf[p].err ELSE PostOf[p].err
             sent == IF isUser THEN userToDocument(UserOf[p])
                               ELSE postToDocument(PostOf[p])
             before == IF isUser THEN users ELSE posts
             after == IF isUser THEN users' ELSE posts'
         IN /\ (msgs[n].st = "pending" /\ msgs'[n].st # "pending" /\ ~failed) =>
                 /\ msgs'[n].st = "calling"
                 /\ msgs'[n].calls = <<[coll |-> IF isUser THEN "users" ELSE "posts",
                                        op |-> "upsert", id |-> sent.id,
                                        doc |-> {sent}]>>
            /\ Answered(n) =>
                 \A d \in before :
                   (d.id = sent.id /\ Later(d.updated_at, sent.updated_at)) =>
                     /\ msgs'[n].result = "ok"
                     /\ sent \in after /\ d \notin after
                     /\ \A e \in after :
                          e.id = sent.id => Later(d.updated_at, e.updated_at)]_vars

\* users.updated for u1 with updated_at 1.5 s was applied after the one with
\* updated_at 2.5 s: the stored updated_at went from 2 to 1.
C20_Witness ==
  /\ Len(msgs) = 2
  /\ msgs[1].subject = "users.updated" /\ msgs[1].payload = "UserU1B1"
  /\ msgs[2].subject = "users.updated" /\ msgs[2].payload = "UserU1B2"
  /\ applied = <<1, 2>>
  /\ msgs[1].result = "ok" /\ msgs[2].result = "ok"
  /\ \E d \in users : d.id = "u1" /\ d.updated_at = Wide(1) /\ d.bio = "b2"
  /\ userToDocument(UserOf["UserU1B1"]).updated_at = Wide(2)

====
